---- MODULE Spec2Model ----
(***************************************************************************)
(* Model of the Fake News Detector service (src/main.py, src/database.py). *)
(*                                                                         *)
(* The state is the predictions table, the Prometheus gauges, and, for     *)
(* each request thread, the request it serves, its position in the handler *)
(* and its local variables.  FastAPI runs the synchronous handlers in a    *)
(* thread pool, so handlers interleave at their database statements; each  *)
(* action below is the code of one handler from one database statement up  *)
(* to the next.  out is the response the last step sent, if it sent one;   *)
(* answered records the /predict exchanges that returned an id.            *)
(*                                                                         *)
(* Numbers: a probability p is held as the integer p * 10^4, a rate or an  *)
(* average that /api/stats rounds to one decimal as the integer of tenths, *)
(* an unrounded gauge value as a fraction <<numerator, denominator>>.      *)
(* A nullable value is <<>> (None / NULL) or <<v>>.                        *)
(*                                                                         *)
(* The store can fail where a handler writes: db.commit in predict and in  *)
(* submit_feedback, and the db.refresh that follows the commit inside the  *)
(* try block of predict.  A read that raises in submit_feedback's lookup,  *)
(* get_statistics or get_predictions is answered 500 and changes nothing;  *)
(* those answers are not modelled.  A read that raises inside              *)
(* update_metrics_from_db is swallowed there and leaves the gauges partly  *)
(* refreshed; no handler reads the gauges, so only the specification       *)
(* SpecSeqMetrics, for the statements about the gauges, has those steps.   *)
(* Neither modelled are the write-only Prometheus                          *)
(* counters and histogram, the MLflow logging and the created_at column    *)
(* (no handler reads them back, except to_dict for created_at).            *)
(* The clock is read once per stored row and never reads the same value    *)
(* twice.                                                                  *)
(***************************************************************************)
EXTENDS Integers, Sequences, FiniteSets

\* ------------------------------------------------------------------ bounds
\* Requests admitted, and restarts of the process, in one behaviour.
MaxRequests == 4
\* Rows the table grows to.
MaxRows == 2
\* Clock readings in one UTC day.
TicksPerDay == 3

\* ------------------------------------------------------------------ inputs
\* Request threads of the server's pool.
Threads == {"t1", "t2"}

Null == <<>>
Some(v) == <<v>>
Val(o) == o[1]

\* POST /predict exchanges: a NewsItem body and what the classifier pipeline,
\* a black box, makes of it: the decoded label and proba (None when the
\* pipeline has no predict_proba, 0.0 when predict_proba raised).
PredictCases ==
    {[title |-> "A", text |-> "B", label |-> "FAKE", proba |-> Some(8704)],
     [title |-> "", text |-> "C", label |-> "REAL", proba |-> Null],
     [title |-> "A", text |-> "C", label |-> "REAL", proba |-> Some(0)]}
\* round(time.time() - start_time, 3), in milliseconds.
Latencies == {12}
\* FeedbackItem bodies of POST /feedback: valid ones, and ones with a word or
\* a rating outside the allowed values.
FeedbackIds == {1, 2}
FeedbackBodies ==
    {[user_feedback |-> "correct", user_rating |-> 1],
     [user_feedback |-> "correct", user_rating |-> 5],
     [user_feedback |-> "incorrect", user_rating |-> 1],
     [user_feedback |-> "maybe", user_rating |-> 5],
     [user_feedback |-> "correct", user_rating |-> 0],
     [user_feedback |-> "incorrect", user_rating |-> 6]}
\* The limit parameter of GET /api/predictions (50 is the default).
Limits == {1, 50}

\* ------------------------------------------------------------------- state
VARIABLES
    store,      \* the predictions table: its rows in insertion order
    now,        \* the clock datetime.utcnow() reads
    gauges,     \* the Prometheus gauges
    pc,         \* per thread: its position in the handler it runs
    req,        \* per thread: the request it serves
    loc,        \* per thread: the handler's local variables
    out,        \* the response sent by the last step (kind "none" if none)
    answered,   \* the /predict exchanges answered with a prediction_id
    admitted,   \* requests admitted and restarts so far
    pool        \* the threads the server's pool runs requests on

vars == <<store, now, gauges, pc, req, loc, out, answered, admitted, pool>>

NoReq == [kind |-> "none"]
NoLoc == [kind |-> "none"]
NoOut == [kind |-> "none"]

\* ----------------------------------------------------------------- helpers
RECURSIVE SumSeq(_)
SumSeq(s) == IF s = <<>> THEN 0 ELSE Head(s) + SumSeq(Tail(s))

RECURSIVE MaxId(_)
MaxId(s) == IF s = <<>> THEN 0
            ELSE LET m == MaxId(Tail(s)) IN IF Head(s).id > m THEN Head(s).id ELSE m

\* Python's round(): to the nearest, ties to even.  num / den rounded to an integer.
RoundDiv(num, den) ==
    LET q == num \div den
        r == num % den
    IN  IF 2 * r < den THEN q
        ELSE IF 2 * r > den THEN q + 1
        ELSE IF q % 2 = 0 THEN q ELSE q + 1

\* round(float(proba), 3) on a probability held in units of 10^-4.
Round3(p) == RoundDiv(p, 10) * 10

\* Python truthiness of proba: None and 0.0 are falsy.
Truthy(proba) == proba # Null /\ Val(proba) # 0

Idle(t) == pc[t] = "idle"

\* An idle thread of the pool takes the next request.
Admit(t) ==
    /\ t \in pool
    /\ Idle(t)
    /\ admitted < MaxRequests
    /\ admitted' = admitted + 1

\* NextRowId that hands out the largest id again.
NextRowIdReused(s) == MaxId(s)

\* SQLite gives a row inserted without an id the largest rowid plus one.
NextRowId(s) == MaxId(s) + 1

\* -------------------------------------------------------------------- Init
\* The gauges as the module creates them, lines 83-106: each reads 0.
NewGauges == [total |-> 0, accuracy |-> <<0, 1>>, rating |-> <<0, 1>>,
              real |-> 0, fake |-> 0]

\* A clean store; the startup refresh of an empty table leaves every gauge 0.
Serving(threads) ==
    /\ pool = threads
    /\ store = <<>>
    /\ now = 0
    /\ gauges = NewGauges
    /\ pc = [t \in Threads |-> "idle"]
    /\ req = [t \in Threads |-> NoReq]
    /\ loc = [t \in Threads |-> NoLoc]
    /\ out = NoOut
    /\ answered = {}
    /\ admitted = 0

\* The server with a pool of several threads.
Init == Serving(Threads)

\* The server with a pool of one thread: requests are served one after the other.
InitSeq == Serving({"t1"})

\* A thread sends its response and goes back to the pool.
Respond(t, request, response) ==
    /\ out' = [kind |-> request.kind, req |-> request, resp |-> response]
    /\ pc' = [pc EXCEPT ![t] = "idle"]
    /\ req' = [req EXCEPT ![t] = NoReq]
    /\ loc' = [loc EXCEPT ![t] = NoLoc]

\* ---------------------------------------------------------------- /predict
\* predict, lines 188-232: classify, then bump the real/fake gauge.
PredictClassify(t, news, outcome, latency) ==
    /\ Admit(t)
    /\ Len(store) + Cardinality({u \in Threads : pc[u] = "predict_save"}) < MaxRows
    /\ req' = [req EXCEPT ![t] = [kind |-> "predict", title |-> news.title,
                                  text |-> news.text]]
    /\ loc' = [loc EXCEPT ![t] = [kind |-> "predict",
                                  decoded_label |-> outcome.label,
                                  proba |-> outcome.proba,
                                  latency |-> latency,
                                  db_prediction_id |-> Null]]
    /\ gauges' = IF outcome.label = "FAKE"
                 THEN [gauges EXCEPT !.fake = @ + 1]
                 ELSE [gauges EXCEPT !.real = @ + 1]
    /\ pc' = [pc EXCEPT ![t] = "predict_save"]
    /\ out' = NoOut
    /\ UNCHANGED <<store, now, answered, pool>>

\* NewPrediction with title and text exchanged.
NewPredictionSwapped(t, id) ==
    [id |-> id,
     title |-> req[t].text,
     text |-> req[t].title,
     prediction |-> loc[t].decoded_label,
     confidence |-> IF Truthy(loc[t].proba) THEN Val(loc[t].proba) ELSE 0,
     latency_seconds |-> loc[t].latency,
     timestamp |-> now,
     user_feedback |-> Null,
     user_rating |-> Null]

\* The row predict builds at lines 236-243.
NewPrediction(t, id) ==
    [id |-> id,
     title |-> req[t].title,
     text |-> req[t].text,
     prediction |-> loc[t].decoded_label,
     confidence |-> IF Truthy(loc[t].proba) THEN Val(loc[t].proba) ELSE 0,
     latency_seconds |-> loc[t].latency,
     timestamp |-> now,
     user_feedback |-> Null,
     user_rating |-> Null]

\* The body predict returns at lines 254-259.
PredictResponse(t, prediction_id) ==
    [status |-> 200,
     prediction_id |-> prediction_id,
     prediction |-> loc[t].decoded_label,
     confidence |-> IF Truthy(loc[t].proba) THEN Some(Round3(Val(loc[t].proba))) ELSE Null,
     latency_seconds |-> loc[t].latency]

\* predict, lines 236-245: db.add and db.commit go through (INSERT, COMMIT).
PredictCommit(t) ==
    /\ pc[t] = "predict_save"
    /\ LET row == NewPrediction(t, NextRowId(store))
       IN  /\ store' = Append(store, row)
           /\ loc' = [loc EXCEPT ![t].db_prediction_id = Some(row.id)]
    /\ now' = now + 1
    /\ pc' = [pc EXCEPT ![t] = "predict_refresh"]
    /\ out' = NoOut
    /\ UNCHANGED <<gauges, req, answered, admitted, pool>>

\* PredictCommitFails without a working rollback: the row stays.
PredictCommitFailsKeepsRow(t) ==
    /\ pc[t] = "predict_save"
    /\ store' = Append(store, NewPrediction(t, NextRowId(store)))
    /\ Respond(t, req[t], PredictResponse(t, Null))
    /\ UNCHANGED <<now, gauges, answered, admitted, pool>>

\* predict, lines 236-245 and 249-252: db.commit raises; the handler rolls
\* back and answers without an id.
PredictCommitFails(t) ==
    /\ pc[t] = "predict_save"
    /\ Respond(t, req[t], PredictResponse(t, Null))
    /\ UNCHANGED <<store, now, gauges, answered, admitted, pool>>

\* predict, lines 246-247 and 254-259: db.refresh reads the row back and the
\* handler answers with its id.
PredictRefresh(t) ==
    /\ pc[t] = "predict_refresh"
    /\ LET response == PredictResponse(t, loc[t].db_prediction_id)
       IN  /\ Respond(t, req[t], response)
           /\ answered' = answered \cup
                  {[prediction_id |-> Val(response.prediction_id),
                    title |-> req[t].title, text |-> req[t].text,
                    prediction |-> response.prediction,
                    confidence |-> response.confidence]}
    /\ UNCHANGED <<store, now, gauges, admitted, pool>>

\* predict, lines 246 and 249-252: db.refresh raises after the commit went
\* through; the except clause rolls back (nothing is pending) and the handler
\* answers without an id.
PredictRefreshFails(t) ==
    /\ pc[t] = "predict_refresh"
    /\ Respond(t, req[t], PredictResponse(t, Null))
    /\ UNCHANGED <<store, now, gauges, answered, admitted, pool>>

\* --------------------------------------------------------------- /feedback
\* FindById without its filter: the first row, whatever its id.
FindByIdNoFilter(s, id) == IF s = <<>> THEN Null ELSE Some(Head(s))

\* db.query(Prediction).filter(Prediction.id == id).first(), line 269.
FindById(s, id) ==
    LET hits == SelectSeq(s, LAMBDA r : r.id = id)
    IN  IF hits = <<>> THEN Null ELSE Some(Head(hits))

\* ValidWord that accepts any word.
ValidWordAny(w) == TRUE
\* ValidRating without its upper limit.
ValidRatingNoUpper(r) == ~(r < 1)

ValidWord(w) == w \in {"correct", "incorrect"}
ValidRating(r) == ~(r < 1 \/ r > 5)

\* submit_feedback, lines 269-283: look the row up, validate, and set the two
\* attributes on the loaded object.  The session remembers the values it
\* loaded: its flush writes the attributes whose value differs from them.
FeedbackLookup(t, item) ==
    /\ Admit(t)
    /\ LET request == [kind |-> "feedback", prediction_id |-> item.prediction_id,
                       user_feedback |-> item.user_feedback,
                       user_rating |-> item.user_rating]
           prediction == FindById(store, item.prediction_id)
       IN  IF prediction = Null
           THEN Respond(t, request, [status |-> 404])
           ELSE IF ~ValidWord(item.user_feedback)
           THEN Respond(t, request, [status |-> 400])
           ELSE IF ~ValidRating(item.user_rating)
           THEN Respond(t, request, [status |-> 400])
           ELSE /\ req' = [req EXCEPT ![t] = request]
                /\ loc' = [loc EXCEPT ![t] =
                       [kind |-> "feedback",
                        loaded |-> [user_feedback |-> Val(prediction).user_feedback,
                                    user_rating |-> Val(prediction).user_rating]]]
                /\ pc' = [pc EXCEPT ![t] = "feedback_commit"]
                /\ out' = NoOut
    /\ UNCHANGED <<store, now, gauges, answered, pool>>

\* FlushFeedback that keeps feedback already stored (first write wins).
FlushFeedbackOnce(s, id, loaded, word, rating) ==
    [i \in 1..Len(s) |->
        IF s[i].id # id \/ s[i].user_feedback # Null THEN s[i]
        ELSE [s[i] EXCEPT !.user_feedback = Some(word), !.user_rating = Some(rating)]]

\* The UPDATE the session's flush emits for the object changed at lines
\* 282-283: SET of the attributes whose new value differs from the loaded
\* one, WHERE id is the object's id.
FlushFeedback(s, id, loaded, word, rating) ==
    [i \in 1..Len(s) |->
        IF s[i].id # id THEN s[i]
        ELSE [s[i] EXCEPT
                 !.user_feedback = IF Some(word) # loaded.user_feedback
                                   THEN Some(word) ELSE @,
                 !.user_rating = IF Some(rating) # loaded.user_rating
                                 THEN Some(rating) ELSE @]]

\* submit_feedback, line 285: db.commit goes through.
FeedbackCommit(t) ==
    /\ pc[t] = "feedback_commit"
    /\ store' = FlushFeedback(store, req[t].prediction_id, loc[t].loaded,
                              req[t].user_feedback, req[t].user_rating)
    /\ pc' = [pc EXCEPT ![t] = "feedback_metrics"]
    /\ out' = NoOut
    /\ UNCHANGED <<now, gauges, req, loc, answered, admitted, pool>>

\* submit_feedback, lines 285 and 305-308: db.commit raises; rollback, 500.
FeedbackCommitFails(t) ==
    /\ pc[t] = "feedback_commit"
    /\ Respond(t, req[t], [status |-> 500])
    /\ UNCHANGED <<store, now, gauges, answered, admitted, pool>>

\* ------------------------------------------------------------ compute_stats
WithFeedback(s) == SelectSeq(s, LAMBDA r : r.user_feedback # Null)
CorrectCount(s) == Len(SelectSeq(WithFeedback(s), LAMBDA r : r.user_feedback = Some("correct")))
RatingsOf(s) ==
    LET rated == SelectSeq(s, LAMBDA r : r.user_rating # Null)
    IN  [i \in 1..Len(rated) |-> Val(rated[i].user_rating)]
CountLabel(s, label) == Len(SelectSeq(s, LAMBDA r : r.prediction = label))

\* UpdateMetricsFromDb with the accuracy taken over all rows, not only over
\* the rows with feedback.
UpdateMetricsFromDbOverAll(g, s) ==
    LET ratings == RatingsOf(s)
    IN  [total |-> Len(s),
         accuracy |-> IF s # <<>> THEN <<CorrectCount(s) * 100, Len(s)>>
                      ELSE g.accuracy,
         rating |-> IF ratings # <<>> THEN <<SumSeq(ratings), Len(ratings)>>
                    ELSE g.rating,
         real |-> CountLabel(s, "REAL"),
         fake |-> CountLabel(s, "FAKE")]

\* update_metrics_from_db, lines 394-425.  accuracy and rating are held as
\* fractions; they are set only when there is something to average.
UpdateMetricsFromDb(g, s) ==
    LET fed == WithFeedback(s)
        ratings == RatingsOf(s)
    IN  [total |-> Len(s),
         accuracy |-> IF fed # <<>> THEN <<CorrectCount(s) * 100, Len(fed)>>
                      ELSE g.accuracy,
         rating |-> IF ratings # <<>> THEN <<SumSeq(ratings), Len(ratings)>>
                    ELSE g.rating,
         real |-> CountLabel(s, "REAL"),
         fake |-> CountLabel(s, "FAKE")]

\* update_metrics_from_db when one of its queries raises, lines 400-428: the
\* gauges set before that query keep their new value, the others their old
\* one, and the except clause prints a warning and returns.  set is the
\* number of gauge updates done: 0 when the count at line 401 raised, 1 when
\* the query at line 404 did, 2 for line 416, 3 for line 422 or 423.
MetricsUpdateFailed(g, s, set) ==
    LET all == UpdateMetricsFromDb(g, s)
    IN  [total |-> IF set >= 1 THEN all.total ELSE g.total,
         accuracy |-> IF set >= 2 THEN all.accuracy ELSE g.accuracy,
         rating |-> IF set >= 3 THEN all.rating ELSE g.rating,
         real |-> g.real,
         fake |-> g.fake]

\* The line the except clause at lines 427-428 prints.
Warning == "Metrics update failed"

\* submit_feedback, lines 290-301: refresh the gauges (the queries of
\* update_metrics_from_db taken together) and answer.
FeedbackMetrics(t) ==
    /\ pc[t] = "feedback_metrics"
    /\ gauges' = UpdateMetricsFromDb(gauges, store)
    /\ Respond(t, req[t], [status |-> 200, prediction_id |-> req[t].prediction_id])
    /\ UNCHANGED <<store, now, answered, admitted, pool>>

\* submit_feedback, lines 290-301, when a query of update_metrics_from_db
\* raises: the function swallows the error, so the answer is the same 200.
FeedbackMetricsFails(t) ==
    /\ pc[t] = "feedback_metrics"
    /\ \E set \in 0..3 : gauges' = MetricsUpdateFailed(gauges, store, set)
    /\ out' = [kind |-> "feedback", req |-> req[t],
               resp |-> [status |-> 200, prediction_id |-> req[t].prediction_id],
               printed |-> Warning]
    /\ pc' = [pc EXCEPT ![t] = "idle"]
    /\ req' = [req EXCEPT ![t] = NoReq]
    /\ loc' = [loc EXCEPT ![t] = NoLoc]
    /\ UNCHANGED <<store, now, answered, admitted, pool>>

\* ------------------------------------------------------------------ startup
\* The process is stopped between two requests and started again on the same
\* database file: the module creates its gauges anew and startup_event, lines
\* 435-451, refreshes them from the table.
StartupEvent ==
    /\ \A t \in Threads : Idle(t)
    /\ gauges' = UpdateMetricsFromDb(NewGauges, store)
    /\ out' = [kind |-> "startup"]
    /\ admitted < MaxRequests
    /\ admitted' = admitted + 1
    /\ UNCHANGED <<store, now, pc, req, loc, answered, pool>>

\* The same when a query of the startup refresh raises: update_metrics_from_db
\* swallows the error and the server starts with the gauges it got to.
StartupEventFails ==
    /\ \A t \in Threads : Idle(t)
    /\ \E set \in 0..3 : gauges' = MetricsUpdateFailed(NewGauges, store, set)
    /\ out' = [kind |-> "startup", printed |-> Warning]
    /\ admitted < MaxRequests
    /\ admitted' = admitted + 1
    /\ UNCHANGED <<store, now, pc, req, loc, answered, pool>>

\* --------------------------------------------------------------- /api/stats
\* The first instant of the UTC day the clock value c lies in.
StartOfDay(c) == c - (c % TicksPerDay)

\* get_statistics, line 318: the count of all rows.
StatsTotal(t) ==
    /\ Admit(t)
    /\ req' = [req EXCEPT ![t] = [kind |-> "stats"]]
    /\ loc' = [loc EXCEPT ![t] = [kind |-> "stats", total_predictions |-> Len(store)]]
    /\ pc' = [pc EXCEPT ![t] = "stats_feedback"]
    /\ out' = NoOut
    /\ UNCHANGED <<store, now, gauges, answered, pool>>

\* Accuracy as a ratio, not a percentage.
AccuracyRatio(correct, fed) == IF fed # 0 THEN RoundDiv(correct * 10, fed) ELSE 0

\* accuracy at lines 326-327 and round(accuracy, 1) at line 345, in tenths.
Accuracy(correct, fed) == IF fed # 0 THEN RoundDiv(correct * 1000, fed) ELSE 0

\* get_statistics, lines 321-327: the rows with feedback, and the accuracy.
StatsFeedback(t) ==
    /\ pc[t] = "stats_feedback"
    /\ loc' = [loc EXCEPT ![t] =
           [kind |-> "stats",
            total_predictions |-> loc[t].total_predictions,
            accuracy |-> Accuracy(CorrectCount(store), Len(WithFeedback(store))),
            feedback_count |-> Len(WithFeedback(store))]]
    /\ pc' = [pc EXCEPT ![t] = "stats_ratings"]
    /\ out' = NoOut
    /\ UNCHANGED <<store, now, gauges, req, answered, admitted, pool>>

\* avg_rating at line 331 and round(avg_rating, 1) at line 346, in tenths.
AverageRating(ratings) ==
    IF ratings # <<>> THEN RoundDiv(SumSeq(ratings) * 10, Len(ratings)) ELSE 0

\* get_statistics, lines 330-331: the ratings and their average.
StatsRatings(t) ==
    /\ pc[t] = "stats_ratings"
    /\ loc' = [loc EXCEPT ![t] =
           [kind |-> "stats",
            total_predictions |-> loc[t].total_predictions,
            accuracy |-> loc[t].accuracy,
            feedback_count |-> loc[t].feedback_count,
            average_rating |-> AverageRating(RatingsOf(store))]]
    /\ pc' = [pc EXCEPT ![t] = "stats_counts"]
    /\ out' = NoOut
    /\ UNCHANGED <<store, now, gauges, req, answered, admitted, pool>>

\* get_statistics, lines 334-351: today's rows, the rows per label, the answer.
StatsCounts(t) ==
    /\ pc[t] = "stats_counts"
    /\ Respond(t, req[t],
           [status |-> 200,
            total_predictions |-> loc[t].total_predictions,
            accuracy |-> loc[t].accuracy,
            average_rating |-> loc[t].average_rating,
            today_predictions |->
                Len(SelectSeq(store, LAMBDA r : r.timestamp >= StartOfDay(now))),
            real_count |-> CountLabel(store, "REAL"),
            fake_count |-> CountLabel(store, "FAKE"),
            feedback_count |-> loc[t].feedback_count])
    /\ UNCHANGED <<store, now, gauges, answered, admitted, pool>>

\* --------------------------------------------------------- /api/predictions
\* ORDER BY timestamp DESC: the latest row first, repeatedly.
RECURSIVE OrderByTimestampDesc(_)
OrderByTimestampDesc(s) ==
    IF s = <<>> THEN <<>>
    ELSE LET i == CHOOSE k \in 1..Len(s) :
                      \A j \in 1..Len(s) :
                          \/ s[k].timestamp > s[j].timestamp
                          \/ (s[k].timestamp = s[j].timestamp /\ k <= j)
             rest == [j \in 1..(Len(s) - 1) |-> IF j < i THEN s[j] ELSE s[j + 1]]
         IN  <<s[i]>> \o OrderByTimestampDesc(rest)

\* LIMIT n.
Limit(s, n) == IF n < Len(s) THEN SubSeq(s, 1, n) ELSE s

\* Prediction.to_dict, src/database.py lines 52-65.
ToDict(r) ==
    [id |-> r.id, title |-> r.title, text |-> r.text, prediction |-> r.prediction,
     confidence |-> r.confidence, latency_seconds |-> r.latency_seconds,
     timestamp |-> r.timestamp, user_feedback |-> r.user_feedback,
     user_rating |-> r.user_rating]

\* get_predictions, lines 364-370.
GetPredictions(t, limit) ==
    /\ Admit(t)
    /\ LET predictions == Limit(OrderByTimestampDesc(store), limit)
       IN  Respond(t, [kind |-> "predictions", limit |-> limit],
                   [status |-> 200,
                    predictions |-> [i \in 1..Len(predictions) |-> ToDict(predictions[i])]])
    /\ UNCHANGED <<store, now, gauges, answered, pool>>

Next ==
    \/ \E t \in Threads : StatsTotal(t)
    \/ \E t \in Threads : StatsFeedback(t)
    \/ \E t \in Threads : StatsRatings(t)
    \/ \E t \in Threads : StatsCounts(t)
    \/ \E t \in Threads, limit \in Limits : GetPredictions(t, limit)
    \/ \E t \in Threads, id \in FeedbackIds, b \in FeedbackBodies :
          FeedbackLookup(t, [prediction_id |-> id, user_feedback |-> b.user_feedback,
                             user_rating |-> b.user_rating])
    \/ \E t \in Threads : FeedbackCommit(t)
    \/ \E t \in Threads : FeedbackCommitFails(t)
    \/ \E t \in Threads : FeedbackMetrics(t)
    \/ StartupEvent
    \/ \E t \in Threads, c \in PredictCases, latency \in Latencies :
          PredictClassify(t, [title |-> c.title, text |-> c.text],
                          [label |-> c.label, proba |-> c.proba], latency)
    \/ \E t \in Threads : PredictCommit(t)
    \/ \E t \in Threads : PredictCommitFails(t)
    \/ \E t \in Threads : PredictRefresh(t)
    \/ \E t \in Threads : PredictRefreshFails(t)

Spec == Init /\ [][Next]_vars

\* Requests served one after the other.
SpecSeq == InitSeq /\ [][Next]_vars

\* The same with a store whose reads can fail where nothing answers the
\* failure: in the queries of update_metrics_from_db.
NextMetrics ==
    \/ Next
    \/ \E t \in Threads : FeedbackMetricsFails(t)
    \/ StartupEventFails

SpecSeqMetrics == InitSeq /\ [][NextMetrics]_vars

\* ------------------------------------------------------------------ claims
Known(id) == \E i \in 1..Len(store) : store[i].id = id
RowOf(id) == store[CHOOSE i \in 1..Len(store) : store[i].id = id]
InDomain(item) ==
    /\ item.user_feedback \in {"correct", "incorrect"}
    /\ item.user_rating \in 1..5

\* C1: a /feedback request whose prediction_id matches no stored row, whatever
\* its user_feedback and user_rating, is answered 404, and the step that
\* answers it leaves every stored row as it was.
C1_UnknownIdNotFound ==
    [][(out'.kind = "feedback" /\ ~Known(out'.req.prediction_id))
           => (out'.resp.status = 404 /\ store' = store)]_vars

\* C1 witness: a request with an unknown id and a word outside the allowed
\* ones has been answered 404 while the table holds a row.
C1_Witness ==
    /\ out.kind = "feedback"
    /\ out.resp.status = 404
    /\ ~InDomain(out.req)
    /\ store # <<>>

\* C2: a /feedback request that names an existing row but carries a rating
\* outside 1..5 or a word other than correct/incorrect is answered 400, and
\* the step that answers it leaves every stored row as it was.
C2_InvalidRejected ==
    [][(out'.kind = "feedback" /\ Known(out'.req.prediction_id) /\ ~InDomain(out'.req))
           => (out'.resp.status = 400 /\ store' = store)]_vars

\* C2 witness: a rating above 5 for an existing row has been answered 400.
C2_Witness ==
    /\ out.kind = "feedback"
    /\ out.resp.status = 400
    /\ out.req.user_rating > 5
    /\ Known(out.req.prediction_id)

\* C3: with requests served one after the other, a valid /feedback request for
\* an existing row is never refused (its answer is 200, or 500 when the commit
\* itself raised), also when the row already carries feedback; once its commit
\* went through the row holds exactly its user_feedback and user_rating.
C3_LastWriteWins ==
    /\ \A t \in Threads :
          pc[t] = "feedback_metrics" =>
              /\ RowOf(req[t].prediction_id).user_feedback = Some(req[t].user_feedback)
              /\ RowOf(req[t].prediction_id).user_rating = Some(req[t].user_rating)
    /\ (out.kind = "feedback" /\ Known(out.req.prediction_id) /\ InDomain(out.req)) =>
          /\ out.resp.status \in {200, 500}
          /\ out.resp.status = 200 =>
                 /\ RowOf(out.req.prediction_id).user_feedback = Some(out.req.user_feedback)
                 /\ RowOf(out.req.prediction_id).user_rating = Some(out.req.user_rating)

\* C3 witness: the second of two submissions for one row, differing from the
\* first in both values, has been committed.
C3_Witness ==
    \E t \in Threads :
        /\ pc[t] = "feedback_metrics"
        /\ loc[t].loaded.user_feedback # Null
        /\ loc[t].loaded.user_feedback # Some(req[t].user_feedback)
        /\ loc[t].loaded.user_rating # Some(req[t].user_rating)
        /\ RowOf(req[t].prediction_id).user_feedback = Some(req[t].user_feedback)
        /\ RowOf(req[t].prediction_id).user_rating = Some(req[t].user_rating)

\* The rows of a /api/predictions answer that carry the given id.
Listed(predictions, id) == {i \in 1..Len(predictions) : predictions[i].id = id}

\* C4 as claimed: every /predict exchange answered with an id shows in any
\* later /api/predictions answer exactly once, with the title and text of its
\* request, the prediction of its response and a confidence equal to the
\* confidence of its response.
C4_ListedAsAnswered ==
    out.kind = "predictions" =>
        \A a \in answered :
            /\ Cardinality(Listed(out.resp.predictions, a.prediction_id)) = 1
            /\ \A i \in Listed(out.resp.predictions, a.prediction_id) :
                   /\ out.resp.predictions[i].title = a.title
                   /\ out.resp.predictions[i].text = a.text
                   /\ out.resp.predictions[i].prediction = a.prediction
                   /\ Some(out.resp.predictions[i].confidence) = a.confidence

\* C4 amended: every /predict exchange answered with an id shows exactly once
\* in any later /api/predictions answer whose limit is not below the number of
\* stored rows, with the title and text of its request and the prediction of
\* its response.  Its stored confidence is the classifier's probability
\* unrounded, or 0 when the classifier gave none or 0: the response carried
\* null exactly when the stored value is 0, and otherwise the stored value
\* rounded to three decimals (within 0.0005 of it).
C4_ListedWithinLimit ==
    (out.kind = "predictions" /\ out.req.limit >= Len(store)) =>
        \A a \in answered :
            /\ Cardinality(Listed(out.resp.predictions, a.prediction_id)) = 1
            /\ \A i \in Listed(out.resp.predictions, a.prediction_id) :
                   LET p == out.resp.predictions[i]
                   IN  /\ p.title = a.title
                       /\ p.text = a.text
                       /\ p.prediction = a.prediction
                       /\ (a.confidence = Null) <=> (p.confidence = 0)
                       /\ a.confidence # Null =>
                              /\ Val(a.confidence) % 10 = 0
                              /\ 2 * (Val(a.confidence) - p.confidence) <= 10
                              /\ 2 * (p.confidence - Val(a.confidence)) <= 10

\* C4 witness: a listing of a table of two rows shows an exchange whose
\* response carried a rounded confidence, after the row received feedback.
C4_Witness ==
    /\ out.kind = "predictions"
    /\ out.req.limit >= Len(store)
    /\ Len(store) = 2
    /\ \E a \in answered :
          /\ a.confidence # Null
          /\ \E i \in Listed(out.resp.predictions, a.prediction_id) :
                 /\ out.resp.predictions[i].confidence # Val(a.confidence)
                 /\ out.resp.predictions[i].user_feedback # Null

\* C5: when the store write of /predict fails, the request is still answered
\* 200 with the classifier's label and the latency and a null prediction_id,
\* and the table is the same as before the request's write.
C5_WriteFailureIsolated ==
    [][\A t \in Threads :
           (pc[t] = "predict_save" /\ pc'[t] = "idle") =>
               /\ out'.kind = "predict"
               /\ out'.resp.status = 200
               /\ out'.resp.prediction_id = Null
               /\ out'.resp.prediction = loc[t].decoded_label
               /\ out'.resp.latency_seconds = loc[t].latency
               /\ store' = store]_vars

\* C5 witness: the first /predict was stored and answered with its id, the
\* second one's write failed: it was answered without an id and the table
\* still holds the one row.
C5_Witness ==
    /\ out.kind = "predict"
    /\ out.resp.prediction_id = Null
    /\ admitted = 2
    /\ Len(store) = 1
    /\ Cardinality(answered) = 1
    /\ \A t \in Threads : Idle(t)

\* C6: under any interleaving of /predict requests the ids of the stored rows
\* are strictly increasing in the order the rows were created (so no two rows
\* share an id), and no step changes the id of a row or removes a row.
C6_IdsUniqueMonotone ==
    [][/\ \A i, j \in 1..Len(store') : i < j => store'[i].id < store'[j].id
       /\ Len(store') >= Len(store)
       /\ \A i \in 1..Len(store) : store'[i].id = store[i].id]_vars

\* C6 witness: two /predict requests in progress at once have both stored
\* their row.
C6_Witness ==
    /\ Len(store) = 2
    /\ \A t \in Threads : pc[t] = "predict_refresh"

\* C7: in every reachable state each row has user_feedback and user_rating
\* both absent or both present, and when present user_feedback is correct or
\* incorrect and user_rating is within 1..5.
C7_FeedbackPairWellFormed ==
    \A i \in 1..Len(store) :
        \/ (store[i].user_feedback = Null /\ store[i].user_rating = Null)
        \/ /\ store[i].user_feedback \in {Some("correct"), Some("incorrect")}
           /\ store[i].user_rating # Null
           /\ Val(store[i].user_rating) \in 1..5

\* C7 witness: a refused /feedback request has just been answered while one
\* row carries feedback and another carries none.
C7_Witness ==
    /\ out.kind = "feedback"
    /\ out.resp.status = 400
    /\ \E i, j \in 1..Len(store) :
          /\ store[i].user_feedback # Null
          /\ store[j].user_feedback = Null

\* C8 as claimed: with requests served one after the other from an empty
\* table, the total_predictions of every /api/stats answer is the number of
\* /predict requests answered with a prediction_id.
C8_TotalCountsAnswered ==
    out.kind = "stats" => out.resp.total_predictions = Cardinality(answered)

\* C9: with requests served one after the other, the accuracy of every
\* /api/stats answer is 0 when no row has user_feedback, and 100 when at least
\* one row has and every row that has it has correct.
C9_AccuracyExtremes ==
    out.kind = "stats" =>
        LET fed == {i \in 1..Len(store) : store[i].user_feedback # Null}
        IN  /\ fed = {} => out.resp.accuracy = 0
            /\ (fed # {} /\ \A i \in fed : store[i].user_feedback = Some("correct"))
                   => out.resp.accuracy = 1000

\* C9 witness: /api/stats answered 100 over a table of two rows, one with
\* feedback correct and one without feedback.
C9_Witness ==
    /\ out.kind = "stats"
    /\ out.resp.accuracy = 1000
    /\ Len(store) = 2
    /\ \E i, j \in 1..Len(store) :
          /\ store[i].user_feedback = Some("correct")
          /\ store[j].user_feedback = Null

\* C10 as claimed: once no request is in progress, the (user_feedback,
\* user_rating) pair of every row that carries feedback is the pair of one
\* single /feedback request (every pair a valid request can carry is listed
\* in FeedbackBodies).
C10_PairFromOneRequest ==
    (\A t \in Threads : Idle(t)) =>
        \A i \in 1..Len(store) :
            store[i].user_feedback # Null =>
                \E b \in FeedbackBodies :
                    /\ InDomain(b)
                    /\ store[i].user_feedback = Some(b.user_feedback)
                    /\ store[i].user_rating = Some(b.user_rating)

\* get_statistics, lines 318-341: the values /api/stats computes from the
\* table before it rounds them, the two averages as fractions.
StatsUnrounded(s) ==
    LET fed == WithFeedback(s)
        ratings == RatingsOf(s)
    IN  [total |-> Len(s),
         accuracy |-> IF fed # <<>> THEN <<CorrectCount(s) * 100, Len(fed)>>
                      ELSE <<0, 1>>,
         rating |-> IF ratings # <<>> THEN <<SumSeq(ratings), Len(ratings)>>
                    ELSE <<0, 1>>,
         real |-> CountLabel(s, "REAL"),
         fake |-> CountLabel(s, "FAKE")]

\* Two fractions of positive denominators are the same number.
SameNumber(f, g) == f[1] * g[2] = g[1] * f[2]

GaugesMatchStats ==
    LET stats == StatsUnrounded(store)
    IN  /\ gauges.total = stats.total
        /\ SameNumber(gauges.accuracy, stats.accuracy)
        /\ SameNumber(gauges.rating, stats.rating)
        /\ gauges.real = stats.real
        /\ gauges.fake = stats.fake

\* The last step ended a gauge refresh: the startup one, or the one of a
\* /feedback request answered 200, and no request is in progress.
RefreshEnded ==
    /\ \/ out.kind = "startup"
       \/ (out.kind = "feedback" /\ out.resp.status = 200)
    /\ \A t \in Threads : Idle(t)

\* The refresh of the last step printed no warning: no query of it raised.
Refreshed == "printed" \notin DOMAIN out

C12_LabelGaugesMatchStore ==
    (\A t \in Threads : Idle(t)) =>
        /\ gauges.real = CountLabel(store, "REAL")
        /\ gauges.fake = CountLabel(store, "FAKE")
====
